---- MODULE Spec2Model ----
(***************************************************************************)
(* State-machine model of src/main.py: the inline-query music bot.         *)
(*                                                                         *)
(* One process lifetime is modelled: module import (load_file_ids), main() *)
(* with the optional bulk job upload_songs, then polling, where the        *)
(* dispatcher hands inline queries to inline_query.  Every `await` on the  *)
(* network is a suspension point and is one action of the model: the       *)
(* action takes the response (success, non-success status, or an exception *)
(* raised by the client library) and runs the coroutine up to its next     *)
(* suspension point.  Time is the monotonic clock read by the TTLCache.    *)
(***************************************************************************)
EXTENDS Integers, Sequences, FiniteSets, TLC

\* ------------------------------------------------------------------ bounds
\* Number of distinct songs (slugs) of the catalog.
NSlugs == 2
\* Number of distinct normalised query strings users send.
NQueries == 3
\* Number of inline queries received in one process lifetime.
MaxRequests == 4
\* The clock runs up to MaxTicks * ttl.
MaxTicks == 1
\* Number of inline queries received when their handlers may overlap.
MaxOverlap == 2
\* Number of pages of the bulk listing.
MaxPages == 2
\* Capacity of the query cache.  main.py:40 sets maxsize=100; the model
\* keeps the cache operators parametric in maxsize and checks them with a
\* small capacity, so that a full cache and an eviction are reachable.
maxsize == 2

\* ------------------------------------------------------- program constants
\* main.py:40  TTLCache(..., ttl=600)
ttl == 600
\* main.py:52  page_size=5 of the catalog search
page_size == 5

Slugs == 1..NSlugs
Queries == 1..NQueries
\* "slug in file_id_storage" is FALSE for a slug mapped to None
None == 0
\* the bulk job upload_songs is process 0, the inline_query handler is 1
Bulk == 0
Handlers == {1}
\* a second handler task, for the specification in which two calls overlap
Overlapping == {1, 2}
Procs == {Bulk} \cup Overlapping

VARIABLES
    file,             \* file_ids.json on disk
    file_id_storage,  \* main.py:39, slug -> file_id (None: no entry)
    query_cache,      \* main.py:40, the TTLCache, entries in LRU order
    clock,            \* the timer of the TTLCache
    main_pc,          \* where main() / the module body is
    task,             \* per coroutine: its position and local variables
    pages,            \* number of listing pages requested by the running
                      \* fetch_all_songs_from_api (0: it is not running)
    nreq,             \* number of inline queries received so far
    uploads,          \* history: per slug, the uploads that returned a file_id
    stored,           \* history: per query, the last call that stored results
                      \* and the number of the last call that stored or read them
    run               \* history of the bulk run: the entries it found at its
                      \* start, the slugs it fetched media for, sent audio
                      \* for, the writes of each entry, and whether its
                      \* listing was cut short

vars == <<file, file_id_storage, query_cache, clock, main_pc, task, pages,
          nreq, uploads, stored, run>>

\* ------------------------------------------------------------ song records
\* A SongRecord of the catalog API (spec section 6), as far as the code reads
\* it: slug, album.slug and image_cropped (odd slugs have a thumbnail).
Song(s) == [slug |-> s, album |-> 10 + s, image_cropped |-> (s % 2 = 1)]

\* main.py:97 / main.py:161  the caption f".../albums/{album_slug}#{slug}"
Caption(song) == <<"albums", song.album, song.slug>>

\* main.py:158-162  InlineQueryResultCachedAudio(id, audio_file_id, caption)
InlineQueryResultCachedAudio(song, file_id) ==
    [id |-> song.slug, audio_file_id |-> file_id, caption |-> Caption(song)]

\* Sequences without repetition over S, of length at most n: the pages a
\* catalog whose slugs are unique can return.
RECURSIVE DistinctSeqs(_, _)
DistinctSeqs(S, n) ==
    IF n = 0 \/ S = {} THEN {<<>>}
    ELSE {<<>>} \cup
         UNION {{<<x>> \o r : r \in DistinctSeqs(S \ {x}, n - 1)} : x \in S}

Min(a, b) == IF a < b THEN a ELSE b

\* main.py:146  query = update.inline_query.query.strip(); a raw query is
\* <<leading blanks, core, trailing blanks>>
strip(raw) == raw[2]
RawQueries == {<<l, q, r>> : l \in {0, 1}, q \in Queries, r \in {0}}

\* --------------------------------------------------------------- TTLCache
\* query_cache is the sequence of its links in least-recently-used order
\* (first: least recently used); each link [key, value, expires].

\* TTLCache.expire(time): drop every link with not (time < expires)
RECURSIVE expire(_, _)
expire(c, now) ==
    IF c = <<>> THEN <<>>
    ELSE IF now < Head(c).expires THEN <<Head(c)>> \o expire(Tail(c), now)
    ELSE expire(Tail(c), now)

HasKey(c, key) == \E k \in 1..Len(c) : c[k].key = key

Link(c, key) == c[CHOOSE k \in 1..Len(c) : c[k].key = key]

RECURSIVE Without(_, _)
Without(c, key) ==
    IF c = <<>> THEN <<>>
    ELSE IF Head(c).key = key THEN Without(Tail(c), key)
    ELSE <<Head(c)>> \o Without(Tail(c), key)

\* main.py:149  "query in query_cache": TTLCache.__contains__, no reordering
cache_contains(c, key, now) == HasKey(c, key) /\ now < Link(c, key).expires

\* main.py:150  query_cache[query]: TTLCache.__getitem__ returns the value ...
cache_value(c, key) == Link(c, key).value

\* mutant: reading a value does not mark its link as used
cache_touch_unmoved(c, key) == c

\* ... and marks the link most recently used; its expiry is not touched
cache_touch(c, key) == Without(c, key) \o <<Link(c, key)>>

\* mutant: popitem() takes the most recently used link
RECURSIVE popitems_newest(_)
popitems_newest(c) ==
    IF Len(c) + 1 > maxsize THEN popitems_newest(SubSeq(c, 1, Len(c) - 1)) ELSE c

\* Cache.__setitem__: while there is no room, popitem() (least recently used)
RECURSIVE popitems(_)
popitems(c) == IF Len(c) + 1 > maxsize THEN popitems(Tail(c)) ELSE c

\* main.py:165  query_cache[query] = results: TTLCache.__setitem__ expires,
\* makes room for a new key, and links the key as most recently used with
\* expires = time + ttl
cache_setitem(c, key, value, now) ==
    LET live == expire(c, now)
        room == IF HasKey(live, key) THEN live ELSE popitems(live)
    IN  Without(room, key) \o
            <<[key |-> key, value |-> value, expires |-> now + ttl]>>

\* ------------------------------------------------------------- Token Store
Empty == [s \in Slugs |-> None]

\* main.py:132  message.audio.file_id: the platform issues a new file_id for
\* every upload; the k-th upload of a slug in this process gets this one
FileId(slug, k) == NSlugs * k + slug

\* main.py:27-28 / main.py:136-137  open("file_ids.json", "w"); json.dump
\* json.dump writes the object of the dict: one "slug": file_id member for
\* each key the dict holds (a slug without an entry is not a key)
Dump(storage) ==
    [kind |-> "json",
     data |-> {<<x, storage[x]>> : x \in {y \in Slugs : storage[y] # None}}]

\* main.py:34  json.load of such an object: the dict with these members
Parse(data) ==
    [x \in Slugs |->
        IF \E member \in data : member[1] = x
        THEN (CHOOSE member \in data : member[1] = x)[2]
        ELSE None]

\* The files the process can find at start: none, one that is not a JSON
\* object (truncated, garbled), or the dump of an earlier run, in which the
\* file_id of slug s is s.
StartFiles ==
    {[kind |-> "missing", data |-> {}], [kind |-> "corrupt", data |-> {}]}
    \cup {Dump(m) : m \in {f \in [Slugs -> 0..NSlugs] :
                              \A s \in Slugs : f[s] \in {None, s}}}

\* --------------------------------------------------------------- processes
NotStored ==
    [valid |-> FALSE, ins |-> 0, results |-> <<>>, others |-> {}, last |-> 0,
     dropped |-> {}]

IdleTask ==
    [pc |-> "idle", query |-> 0, recv |-> 0, hit |-> FALSE,
     songs |-> <<>>, i |-> 1, results |-> <<>>, thumbnail_io |-> FALSE,
     dropped |-> {}, returned |-> <<>>, raised |-> "no", prior |-> NotStored]

NoRun ==
    [entries |-> Empty, fetched |-> {}, uploaded |-> {},
     written |-> [s \in Slugs |-> 0], cut |-> FALSE]

Init ==
    /\ file \in StartFiles
    /\ file_id_storage = Empty
    /\ query_cache = <<>>
    /\ clock = 0
    /\ main_pc = "load"
    /\ task = [p \in Procs |-> IdleTask]
    /\ pages = 0
    /\ nreq = 0
    /\ uploads = [s \in Slugs |-> 0]
    /\ stored = [q \in Queries |-> NotStored]
    /\ run = NoRun

\* ------------------------------------------------------------ module body
\* main.py:31-36  load_file_ids: only FileNotFoundError is caught; json.load
\* of a file that is not JSON raises json.JSONDecodeError to the caller
load_file_ids(f) ==
    IF f.kind = "missing" THEN [raised |-> FALSE, value |-> Empty]
    ELSE IF f.kind = "json" THEN [raised |-> FALSE, value |-> Parse(f.data)]
    ELSE [raised |-> TRUE, value |-> Empty]

\* main.py:39  file_id_storage = load_file_ids(), at import time: an
\* exception here ends the process before main() runs
Load ==
    /\ main_pc = "load"
    /\ IF load_file_ids(file).raised
       THEN main_pc' = "import_failed" /\ UNCHANGED file_id_storage
       ELSE main_pc' = "main" /\ file_id_storage' = load_file_ids(file).value
    /\ UNCHANGED <<file, query_cache, clock, task, pages,
                   nreq, uploads, stored, run>>

\* mutant: upload_songs is started as a background task and main() goes
\* straight on to run_polling
Main_background ==
    /\ main_pc = "main"
    /\ main_pc' = "polling"
    /\ \E upload_songs_env \in BOOLEAN :
         IF upload_songs_env
         THEN /\ task' = [task EXCEPT ![Bulk].pc = "list"]
              /\ pages' = 1
              /\ run' = [NoRun EXCEPT !.entries = file_id_storage]
         ELSE UNCHANGED <<task, pages, run>>
    /\ UNCHANGED <<file, file_id_storage, query_cache, clock, nreq, uploads, stored>>

\* main.py:212-224  main(): with os.getenv("UPLOAD_SONGS") == "true",
\* run_until_complete of
\* upload_songs, which suspends in fetch_all_songs_from_api at the first
\* session.get (main.py:178); otherwise straight to run_polling
Main ==
    /\ main_pc = "main"
    /\ \E upload_songs_env \in BOOLEAN :
         IF upload_songs_env
         THEN /\ main_pc' = "upload_songs"
              /\ task' = [task EXCEPT ![Bulk].pc = "list"]
              /\ pages' = 1
              /\ run' = [NoRun EXCEPT !.entries = file_id_storage]
         ELSE /\ main_pc' = "polling"
              /\ UNCHANGED <<task, pages, run>>
    /\ UNCHANGED <<file, file_id_storage, query_cache, clock, nreq, uploads, stored>>

\* The timer of the TTLCache advances; only the polling phase reads it.
TimeSteps == {ttl \div 2}

Tick ==
    /\ main_pc = "polling"
    /\ \E d \in TimeSteps :
          /\ clock + d <= MaxTicks * ttl
          /\ clock' = clock + d
    /\ UNCHANGED <<file, file_id_storage, query_cache, main_pc, task, pages, nreq, uploads, stored, run>>

\* ------------------------------------------------------ get_telegram_file_id
CurrentSong(p) == task[p].songs[task[p].i]

InLoop(p) == task[p].pc = "loop" /\ task[p].i <= Len(task[p].songs)

\* mutant: the check of main.py:88 is missing
FastPath_never(song) == FALSE

\* main.py:88  if slug in file_id_storage
FastPath(song) == file_id_storage[song.slug] # None

\* mutant: the result is put in front of the list
Appended_front(t, file_id) ==
    [task[t] EXCEPT
        !.results = IF file_id # None
                    THEN <<InlineQueryResultCachedAudio(CurrentSong(t), file_id)>> \o @
                    ELSE @,
        !.returned = Append(@, file_id),
        !.i = @ + 1, !.pc = "loop", !.thumbnail_io = FALSE]

\* main.py:156-163  the for loop of inline_query takes the returned file_id:
\* "if file_id: results.append(...)", then the next song
\* (history: returned records what each call returned)
Appended(t, file_id) ==
    [task[t] EXCEPT
        !.results = IF file_id # None
                    THEN Append(@, InlineQueryResultCachedAudio(CurrentSong(t), file_id))
                    ELSE @,
        !.returned = Append(@, file_id),
        !.i = @ + 1, !.pc = "loop", !.thumbnail_io = FALSE]

\* main.py:203-207  the for loop of upload_songs after the call returned
Uploaded(file_id) ==
    [task[Bulk] EXCEPT !.i = @ + 1, !.pc = "loop", !.thumbnail_io = FALSE]

Returned(p, file_id) == IF p = Bulk THEN Uploaded(file_id) ELSE Appended(p, file_id)

\* main.py:25-28  store_file_id, called by upload_songs on a returned file_id
store_file_id(storage, slug, file_id) == [storage EXCEPT ![slug] = file_id]

\* history of the bulk run
Fetched(p, slug) == IF p = Bulk THEN [run EXCEPT !.fetched = @ \cup {slug}] ELSE run

SentAudio(p, slug) == IF p = Bulk THEN [run EXCEPT !.uploaded = @ \cup {slug}] ELSE run

\* mutant: the early return of main.py:89 is missing, the download starts
ResolveCached_download(t) ==
    /\ t # Bulk
    /\ InLoop(t)
    /\ FastPath(CurrentSong(t))
    /\ task' = [task EXCEPT ![t].pc = "media"]
    /\ UNCHANGED <<file, file_id_storage, query_cache, clock, main_pc, pages,
                   nreq, uploads, stored, run>>

\* main.py:155, 87-89  fast path: the stored file_id is returned at once
ResolveCached(t) ==
    /\ t # Bulk
    /\ InLoop(t)
    /\ FastPath(CurrentSong(t))
    /\ task' = [task EXCEPT ![t] = Appended(t, file_id_storage[CurrentSong(t).slug])]
    /\ UNCHANGED <<file, file_id_storage, query_cache, clock, main_pc, pages, nreq, uploads, stored, run>>

\* main.py:200,208-209  upload_songs skips a slug that is in file_id_storage
BulkSkip ==
    /\ InLoop(Bulk)
    /\ file_id_storage[CurrentSong(Bulk).slug] # None
    /\ task' = [task EXCEPT ![Bulk].i = @ + 1]
    /\ UNCHANGED <<file, file_id_storage, query_cache, clock, main_pc, pages, nreq, uploads, stored, run>>

\* main.py:87-101  no entry: the coroutine suspends in session.get(file_url)
ResolveBegin(p) ==
    /\ InLoop(p)
    /\ ~FastPath(CurrentSong(p))
    /\ task' = [task EXCEPT ![p].pc = "media"]
    /\ run' = Fetched(p, CurrentSong(p).slug)
    /\ UNCHANGED <<file, file_id_storage, query_cache, clock, main_pc, pages, nreq, uploads, stored>>

\* main.py:102-108,122  status 200: the bytes are read; with a thumbnail URL
\* download_thumbnail is awaited, without one send_audio is
MediaOk(p) ==
    /\ task[p].pc = "media"
    /\ IF CurrentSong(p).image_cropped
       THEN /\ task' = [task EXCEPT ![p].pc = "thumb"]
            /\ UNCHANGED run
       ELSE /\ task' = [task EXCEPT ![p].pc = "upload", ![p].thumbnail_io = FALSE]
            /\ run' = SentAudio(p, CurrentSong(p).slug)
    /\ UNCHANGED <<file, file_id_storage, query_cache, clock, main_pc, pages, nreq, uploads, stored>>

\* mutant: a file_id is returned although the download failed
MediaStatus_file_id(p) ==
    /\ task[p].pc = "media"
    /\ task' = [task EXCEPT ![p] =
                   [Returned(p, FileId(CurrentSong(p).slug, 0))
                       EXCEPT !.dropped = @ \cup {CurrentSong(p).slug}]]
    /\ UNCHANGED <<file, file_id_storage, query_cache, clock, main_pc, pages,
                   nreq, uploads, stored, run>>

\* main.py:140-142  any other status: "Failed to download file.", return None
\* (history: dropped records the slugs whose download had such a status)
MediaStatus(p) ==
    /\ task[p].pc = "media"
    /\ task' = [task EXCEPT ![p] =
                   [Returned(p, None) EXCEPT !.dropped = @ \cup {CurrentSong(p).slug}]]
    /\ UNCHANGED <<file, file_id_storage, query_cache, clock, main_pc, pages, nreq, uploads, stored, run>>

\* main.py:69-72,111-120  thumbnail downloaded: send_audio with thumbnail
ThumbnailOk(p) ==
    /\ task[p].pc = "thumb"
    /\ task' = [task EXCEPT ![p].pc = "upload", ![p].thumbnail_io = TRUE]
    /\ run' = SentAudio(p, CurrentSong(p).slug)
    /\ UNCHANGED <<file, file_id_storage, query_cache, clock, main_pc, pages, nreq, uploads, stored>>

\* main.py:73-75,121-129  download_thumbnail returns None: send_audio without
ThumbnailStatus(p) ==
    /\ task[p].pc = "thumb"
    /\ task' = [task EXCEPT ![p].pc = "upload", ![p].thumbnail_io = FALSE]
    /\ run' = SentAudio(p, CurrentSong(p).slug)
    /\ UNCHANGED <<file, file_id_storage, query_cache, clock, main_pc, pages, nreq, uploads, stored>>

\* mutant: an entry that exists is kept (setdefault instead of assignment)
UploadOk_keep(p) ==
    /\ task[p].pc = "upload"
    /\ uploads' = [uploads EXCEPT ![CurrentSong(p).slug] = @ + 1]
    /\ file_id_storage' =
          IF file_id_storage[CurrentSong(p).slug] # None THEN file_id_storage
          ELSE [file_id_storage EXCEPT ![CurrentSong(p).slug] =
                   FileId(CurrentSong(p).slug, uploads'[CurrentSong(p).slug])]
    /\ file' = Dump(file_id_storage')
    /\ task' = [task EXCEPT ![p] =
                   Returned(p, FileId(CurrentSong(p).slug, uploads'[CurrentSong(p).slug]))]
    /\ UNCHANGED <<query_cache, clock, main_pc, pages, nreq, stored, run>>

\* mutant: the file_id returned is not the one stored
UploadOk_other(p) ==
    /\ task[p].pc = "upload"
    /\ uploads' = [uploads EXCEPT ![CurrentSong(p).slug] = @ + 1]
    /\ file_id_storage' =
          [file_id_storage EXCEPT ![CurrentSong(p).slug] =
              FileId(CurrentSong(p).slug, uploads'[CurrentSong(p).slug])]
    /\ file' = Dump(file_id_storage')
    /\ task' = [task EXCEPT ![p] = Returned(p, FileId(CurrentSong(p).slug, 0))]
    /\ UNCHANGED <<query_cache, clock, main_pc, pages, nreq, stored, run>>

\* mutant: the entry is stored in memory but the file is not rewritten
\* (main.py:136-137 and main.py:27-28 missing)
UploadOk_undumped(p) ==
    /\ task[p].pc = "upload"
    /\ uploads' = [uploads EXCEPT ![CurrentSong(p).slug] = @ + 1]
    /\ file_id_storage' =
          [file_id_storage EXCEPT ![CurrentSong(p).slug] =
              FileId(CurrentSong(p).slug, uploads'[CurrentSong(p).slug])]
    /\ task' = [task EXCEPT ![p] =
                   Returned(p, FileId(CurrentSong(p).slug, uploads'[CurrentSong(p).slug]))]
    /\ UNCHANGED <<file, query_cache, clock, main_pc, pages, nreq, stored, run>>

\* mutant: the file_id is returned without being stored (main.py:133-137)
UploadOk_unstored(p) ==
    /\ task[p].pc = "upload"
    /\ uploads' = [uploads EXCEPT ![CurrentSong(p).slug] = @ + 1]
    /\ task' = [task EXCEPT ![p] =
                   Returned(p, FileId(CurrentSong(p).slug, uploads'[CurrentSong(p).slug]))]
    /\ UNCHANGED <<file, file_id_storage, query_cache, clock, main_pc, pages,
                   nreq, stored, run>>

\* main.py:131-139  send_audio returned the message: its file_id is stored,
\* the file is rewritten and the file_id returned; upload_songs then calls
\* store_file_id with it (main.py:203-204), which stores and rewrites again
UploadOk(p) ==
    /\ task[p].pc = "upload"
    /\ LET slug == CurrentSong(p).slug
           file_id == FileId(slug, uploads[slug] + 1)
           storage == [file_id_storage EXCEPT ![slug] = file_id]
       IN  /\ file_id_storage' =
                 IF p = Bulk THEN store_file_id(storage, slug, file_id) ELSE storage
           /\ file' = Dump(file_id_storage')
           /\ uploads' = [uploads EXCEPT ![slug] = @ + 1]
           /\ run' = IF p = Bulk THEN [run EXCEPT !.written[slug] = @ + 2] ELSE run
           /\ task' = [task EXCEPT ![p] = Returned(p, file_id)]
    /\ UNCHANGED <<query_cache, clock, main_pc, pages, nreq,
                   stored>>

\* -------------------------------------------------------------- inline_query
Finished == {"idle", "done", "failed"}

\* main.py:213-214,224  the Application is built without concurrent updates
\* and the handler is registered blocking: the dispatcher awaits the handler
\* of one update before it takes the next, and polls only after upload_songs
CanDispatch == main_pc = "polling" /\ \A o \in Handlers : task[o].pc \in Finished

\* Query strings are interchangeable: they are numbered in the order in
\* which they are first received.
Known == {q \in Queries : stored[q].valid \/ \E t \in Overlapping : task[t].query = q}

Admitted(query) == query \in Known \/ \A q \in 1..(query - 1) : q \in Known

\* history: every other query with stored results has seen this query since
Seen(query) ==
    [q \in Queries |->
        IF q # query /\ stored[q].valid
        THEN [stored[q] EXCEPT !.others = @ \cup {query}]
        ELSE stored[q]]

\* main.py:145-152,167  the handler up to its first suspension: on a hit the
\* cached list is taken and answer_inline_query awaited; on a miss
\* fetch_songs_from_api is awaited (session.get, main.py:51)
Handle(t) ==
    /\ t # Bulk
    /\ \E raw \in RawQueries :
         LET query == strip(raw)
             new == [IdleTask EXCEPT !.query = query, !.recv = clock, !.prior = stored[query]]
         IN  /\ Admitted(query)
             /\ nreq' = nreq + 1
             /\ stored' = IF cache_contains(query_cache, query, clock)
                          THEN [Seen(query) EXCEPT ![query].last = nreq + 1]
                          ELSE Seen(query)
             /\ IF cache_contains(query_cache, query, clock)
                THEN /\ task' = [task EXCEPT ![t] =
                            [new EXCEPT !.pc = "answer", !.hit = TRUE,
                                        !.results = cache_value(query_cache, query)]]
                     /\ query_cache' = cache_touch(query_cache, query)
                ELSE /\ task' = [task EXCEPT ![t] = [new EXCEPT !.pc = "search"]]
                     /\ UNCHANGED query_cache
    /\ UNCHANGED <<file, file_id_storage, clock, main_pc,
                   pages, uploads, run>>

\* main.py:213-214,224  the dispatcher calls the handler for the next update
\* once the handler of the previous one has returned
Receive(t) ==
    /\ CanDispatch
    /\ nreq < MaxRequests
    /\ Handle(t)

\* The pages a search can return: up to page_size songs, slugs unique.
SearchPages == DistinctSeqs(Slugs, Min(page_size, NSlugs))

Songs(slugs) == [k \in 1..Len(slugs) |-> Song(slugs[k])]

\* main.py:54-55,153  status 200: the page is the JSON body; results = []
SearchOk(t) ==
    /\ task[t].pc = "search"
    /\ \E page \in SearchPages :
         task' = [task EXCEPT ![t].pc = "loop", ![t].songs = Songs(page),
                              ![t].i = 1, ![t].results = <<>>]
    /\ UNCHANGED <<file, file_id_storage, query_cache, clock, main_pc, pages, nreq, uploads, stored, run>>

\* main.py:56-57  any other status: {"results": []}
SearchStatus(t) ==
    /\ task[t].pc = "search"
    /\ task' = [task EXCEPT ![t].pc = "loop", ![t].songs = <<>>,
                            ![t].i = 1, ![t].results = <<>>]
    /\ UNCHANGED <<file, file_id_storage, query_cache, clock, main_pc, pages, nreq, uploads, stored, run>>

\* main.py:164-167  after the loop the list is stored in the cache and
\* answer_inline_query is awaited
\* (history: the list and its use stamp are kept for a
\* query as long as the cache has a link for it)
StoreResults(t) ==
    /\ t # Bulk
    /\ task[t].pc = "loop"
    /\ task[t].i > Len(task[t].songs)
    /\ query_cache' = cache_setitem(query_cache, task[t].query, task[t].results, clock)
    /\ task' = [task EXCEPT ![t].pc = "answer"]
    /\ stored' =
          [q \in Queries |->
              IF q = task[t].query
              THEN [valid |-> TRUE, ins |-> clock,
                    results |-> task[t].results, others |-> {},
                    last |-> nreq, dropped |-> task[t].dropped]
              ELSE IF HasKey(query_cache', q) THEN stored[q]
              ELSE [stored[q] EXCEPT !.results = <<>>, !.last = 0]]
    /\ UNCHANGED <<file, file_id_storage, clock, main_pc,
                   pages, nreq, uploads, run>>

\* main.py:167  answer_inline_query returned: the handler returns, its
\* locals are gone
AnswerOk(t) ==
    /\ task[t].pc = "answer"
    /\ task' = [task EXCEPT ![t] = [IdleTask EXCEPT !.pc = "done"]]
    /\ UNCHANGED <<file, file_id_storage, query_cache, clock, main_pc, pages, nreq, uploads, stored, run>>

\* ---------------------------------------------------------------- upload_songs
Listed == {task[Bulk].songs[k].slug : k \in 1..Len(task[Bulk].songs)}

\* main.py:187,191-198  fetch_all_songs_from_api returned all_songs: without
\* songs upload_songs returns and main() goes on to run_polling
\* (history: cut records that the listing was ended by a failure status)
ListEnd(all_songs, cut) ==
    /\ pages' = 0
    /\ IF all_songs = <<>>
       THEN /\ task' = [task EXCEPT ![Bulk] = [IdleTask EXCEPT !.pc = "done"]]
            /\ main_pc' = "polling"
            /\ run' = NoRun
       ELSE /\ task' = [task EXCEPT ![Bulk].pc = "loop", ![Bulk].songs = all_songs,
                                    ![Bulk].i = 1]
            /\ run' = [run EXCEPT !.cut = cut]
            /\ UNCHANGED main_pc

\* main.py:176-182  status 200: the page is appended; with a next URL the
\* next page is requested
ListOk ==
    /\ task[Bulk].pc = "list"
    /\ \E page \in DistinctSeqs(Slugs \ Listed, NSlugs), next \in BOOLEAN :
         LET all_songs == task[Bulk].songs \o Songs(page)
         IN  /\ next => pages < MaxPages
             /\ IF next
                THEN /\ task' = [task EXCEPT ![Bulk].songs = all_songs]
                     /\ pages' = pages + 1
                     /\ UNCHANGED <<main_pc, run>>
                ELSE ListEnd(all_songs, FALSE)
    /\ UNCHANGED <<file, file_id_storage, query_cache, clock, nreq, uploads, stored>>

\* main.py:183-185  any other status: logged, the pagination breaks
ListStatus ==
    /\ task[Bulk].pc = "list"
    /\ ListEnd(task[Bulk].songs, TRUE)
    /\ UNCHANGED <<file, file_id_storage, query_cache, clock, nreq, uploads, stored>>

\* main.py:198,222-224  the loop is over: upload_songs returns (its locals
\* are gone) and main() goes on to run_polling
BulkDone ==
    /\ task[Bulk].pc = "loop"
    /\ task[Bulk].i > Len(task[Bulk].songs)
    /\ task' = [task EXCEPT ![Bulk] = [IdleTask EXCEPT !.pc = "done"]]
    /\ main_pc' = "polling"
    /\ run' = NoRun
    /\ UNCHANGED <<file, file_id_storage, query_cache, clock, pages, nreq, uploads, stored>>

\* ------------------------------------------------------------------ exceptions
Awaiting == {"search", "media", "thumb", "upload", "answer", "list"}

\* No try/except surrounds any await (main.py:51,68,101,112,122,167,178): an
\* exception raised by the awaited call leaves the coroutine.  In a handler
\* the dispatcher passes it to error_handler (main.py:43-45), which logs; in
\* upload_songs it leaves run_until_complete (main.py:222) and main().
\* The locals of the coroutine are gone; raised keeps where it was.
Raise(p) ==
    /\ task[p].pc \in Awaiting
    /\ task' = [task EXCEPT ![p] =
                   [IdleTask EXCEPT !.pc = "failed", !.raised = task[p].pc]]
    /\ main_pc' = IF p = Bulk THEN "crashed" ELSE main_pc
    /\ UNCHANGED <<file, file_id_storage, query_cache, clock, pages, nreq, uploads, stored, run>>

\* --------------------------------------------------------------- specification
Next ==
    \/ Load
    \/ Main
    \/ Tick
    \/ ListOk
    \/ ListStatus
    \/ BulkSkip
    \/ BulkDone
    \/ \E t \in Handlers : Receive(t)
    \/ \E t \in Handlers : SearchOk(t)
    \/ \E t \in Handlers : SearchStatus(t)
    \/ \E t \in Handlers : ResolveCached(t)
    \/ \E t \in Handlers : StoreResults(t)
    \/ \E t \in Handlers : AnswerOk(t)
    \/ \E p \in Procs : ResolveBegin(p)
    \/ \E p \in Procs : MediaOk(p)
    \/ \E p \in Procs : MediaStatus(p)
    \/ \E p \in Procs : ThumbnailOk(p)
    \/ \E p \in Procs : ThumbnailStatus(p)
    \/ \E p \in Procs : UploadOk(p)
    \/ \E p \in Procs : Raise(p)

Spec == Init /\ [][Next]_vars

\* ------------------------------------------------- overlapping handler calls
\* inline_query and get_telegram_file_id are coroutines: a caller that does
\* not await one call before it starts the next (an Application built with
\* concurrent_updates, or handlers registered non-blocking) has two of them
\* suspended at the same time.  This specification starts in the polling
\* phase and lets a handler be called while the other one is suspended.
ReceiveOverlapping(t) ==
    /\ main_pc = "polling"
    /\ task[t].pc \in Finished
    /\ nreq < MaxOverlap
    /\ Handle(t)

InitOverlap ==
    /\ file \in {f \in StartFiles : ~load_file_ids(f).raised}
    /\ file_id_storage = load_file_ids(file).value
    /\ query_cache = <<>>
    /\ clock = 0
    /\ main_pc = "polling"
    /\ task = [p \in Procs |-> IdleTask]
    /\ pages = 0
    /\ nreq = 0
    /\ uploads = [s \in Slugs |-> 0]
    /\ stored = [q \in Queries |-> NotStored]
    /\ run = NoRun

NextOverlap ==
    \/ Tick
    \/ \E t \in Overlapping : ReceiveOverlapping(t)
    \/ \E t \in Overlapping : SearchOk(t)
    \/ \E t \in Overlapping : SearchStatus(t)
    \/ \E t \in Overlapping : ResolveCached(t)
    \/ \E t \in Overlapping : StoreResults(t)
    \/ \E t \in Overlapping : AnswerOk(t)
    \/ \E t \in Overlapping : ResolveBegin(t)
    \/ \E t \in Overlapping : MediaOk(t)
    \/ \E t \in Overlapping : MediaStatus(t)
    \/ \E t \in Overlapping : ThumbnailOk(t)
    \/ \E t \in Overlapping : ThumbnailStatus(t)
    \/ \E t \in Overlapping : UploadOk(t)
    \/ \E t \in Overlapping : Raise(t)

SpecOverlap == InitOverlap /\ [][NextOverlap]_vars

\* ======================================================================
\* Properties
\* ======================================================================
Ids(results) == {results[k].id : k \in 1..Len(results)}

\* p is between the absence check and the return of get_telegram_file_id
\* for slug s: downloading the media or the thumbnail, or uploading
InSlowPath(p, s) ==
    task[p].pc \in {"media", "thumb", "upload"} /\ CurrentSong(p).slug = s

\* C1: a call of get_telegram_file_id for a song whose slug has an entry
\* returns the stored file_id (the handler appends a result carrying it) in
\* the same step, without suspending in a download or an upload, and leaves
\* file_id_storage and the file unchanged.
FastPathReturnsStored ==
    [][\A t \in Handlers :
          (InLoop(t) /\ file_id_storage[CurrentSong(t).slug] # None /\ task'[t] # task[t])
          => /\ task'[t].pc = "loop"
             /\ task'[t].i = task[t].i + 1
             /\ task'[t].results =
                   Append(task[t].results,
                          InlineQueryResultCachedAudio(CurrentSong(t),
                              file_id_storage[CurrentSong(t).slug]))
             /\ file_id_storage' = file_id_storage
             /\ file' = file
             /\ uploads' = uploads]_vars

\* C1 witness: a handler that missed the query cache holds a result for a
\* slug that this process never uploaded: its file_id came from the store.
FastPathTaken ==
    \E t \in Handlers :
        /\ ~task[t].hit
        /\ \E k \in 1..Len(task[t].results) :
              /\ uploads[task[t].results[k].id] = 0
              /\ task[t].results[k].audio_file_id = file_id_storage[task[t].results[k].id]

\* C4: once a slug has a file_id in file_id_storage, no step changes it.
WriteOncePerSlug ==
    [][\A s \in Slugs :
          file_id_storage[s] # None => file_id_storage'[s] = file_id_storage[s]]_vars

\* C4 witness: the bulk job uploaded a slug: get_telegram_file_id wrote its
\* entry and store_file_id wrote it again, with the same file_id.
StoredTwiceSameToken ==
    \E s \in Slugs : run.written[s] = 2 /\ file_id_storage[s] = FileId(s, 1)

\* C5: per slug, at most one upload returns a file_id in the process
\* lifetime, and a call is in the download-upload-store path for a slug only
\* while the slug has no entry and no upload of it has returned: after the
\* path has run once, every call takes the fast path.
SlowPathAtMostOnce ==
    \A s \in Slugs :
        /\ uploads[s] <= 1
        /\ uploads[s] = 1 => file_id_storage[s] = FileId(s, 1)
        /\ \A p \in Procs :
              InSlowPath(p, s) => file_id_storage[s] = None /\ uploads[s] = 0

\* C5 witness: a later call is about to resolve a slug that an earlier call
\* uploaded (the query cache holds the earlier call's result for it).
LaterCallAfterUpload ==
    \E t \in Handlers :
        /\ InLoop(t)
        /\ uploads[CurrentSong(t).slug] = 1
        /\ \E k \in 1..Len(query_cache) :
              CurrentSong(t).slug \in Ids(query_cache[k].value)

\* The call of t is for a query whose results an earlier call stored.
Repeats(t) == task[t].pc \notin Finished /\ task[t].prior.valid

\* C2 as stated: a call for q received less than ttl after an earlier call
\* stored its list for q is a cache hit, whatever was handled in between: it
\* goes straight to the answer with the stored list, with no catalog search
\* and no resolver call.
SecondCallWithinTTLHits ==
    \A t \in Handlers :
        (Repeats(t) /\ task[t].recv < task[t].prior.ins + ttl)
        => /\ task[t].hit
           /\ task[t].pc = "answer"
           /\ task[t].results = task[t].prior.results

\* C2, amended: the same, provided fewer than maxsize other distinct queries
\* were received since the list was stored (the cache evicts its least
\* recently used entry when a new key finds it full).
SecondCallWithinTTLHitsUnlessEvicted ==
    \A t \in Handlers :
        (/\ Repeats(t)
         /\ task[t].recv < task[t].prior.ins + ttl
         /\ Cardinality(task[t].prior.others) < maxsize)
        => /\ task[t].hit
           /\ task[t].pc = "answer"
           /\ task[t].results = task[t].prior.results

\* C2 witness: a second call for a query is a hit with a non-empty list,
\* after another query was handled in between and the clock advanced.
SecondCallHit ==
    \E t \in Handlers :
        /\ Repeats(t)
        /\ task[t].hit
        /\ task[t].prior.others # {}
        /\ task[t].recv > task[t].prior.ins
        /\ task[t].results # <<>>
        /\ task[t].results = task[t].prior.results

\* An entry expires ttl after the call that stored it, whatever hits it had;
\* a hit is a lookup before that time.
HitsOnlyBeforeExpiry ==
    /\ \A k \in 1..Len(query_cache) :
          /\ stored[query_cache[k].key].valid
          /\ query_cache[k].expires = stored[query_cache[k].key].ins + ttl
          /\ query_cache[k].value = stored[query_cache[k].key].results
    /\ \A t \in Handlers :
          (task[t].pc \notin Finished /\ task[t].hit)
          => task[t].prior.valid /\ task[t].recv < task[t].prior.ins + ttl

\* A call received at or after the expiry of the entry of its query is a
\* miss, and it ends only after it has stored its list anew.
ExpiredCallOverwrites ==
    \A t \in Handlers :
        (Repeats(t) /\ task[t].recv >= task[t].prior.ins + ttl)
        => /\ ~task[t].hit
           /\ task[t].pc # "answer" => stored[task[t].query] = task[t].prior
           /\ task'[t].pc \in Finished => stored'[task[t].query].ins >= task[t].recv

\* C3 as stated: an entry inserted at time t is a hit only for lookups before
\* t + ttl, hits do not extend the expiry, and the first call for the query
\* at or after t + ttl is a miss, searches the catalog again and overwrites
\* the entry.
ExpiryThenRefresh == []HitsOnlyBeforeExpiry /\ [][ExpiredCallOverwrites]_vars

\* The songs of the listing that had no entry when the bulk run started.
Missing == {x \in Listed : run.entries[x] = None}

\* C6 as stated: when a bulk run over its listing ends, it has made a media
\* fetch for exactly the listed songs that had no entry at its start, has
\* sent audio only for songs it fetched, and has made no call for a song
\* that had an entry.
BulkRunFetchesMissing ==
    [][(task[Bulk].pc \in {"loop", "media", "thumb", "upload"}
          /\ task'[Bulk].pc \in Finished)
       => /\ run.fetched = Missing
          /\ run.uploaded \subseteq run.fetched
          /\ \A x \in Listed : run.entries[x] # None => x \notin run.fetched]_vars

\* A run that is not cut short does fetch exactly the missing songs.
CompleteRunFetchesMissing ==
    (task[Bulk].pc = "loop" /\ task[Bulk].i > Len(task[Bulk].songs))
    => /\ run.fetched = Missing
       /\ run.uploaded \subseteq run.fetched

\* The songs of the handler's page whose download returned a failure status
\* are not in its result list.
DroppedNotInResults ==
    \A t \in Handlers : task[t].dropped \cap Ids(task[t].results) = {}

\* The step in which a download returns a failure status: the call returns
\* at once (no send_audio), nothing is appended, no entry is written.
DownloadStatusStep ==
    \A p \in Procs :
        (task[p].pc = "media" /\ task'[p].dropped \ task[p].dropped # {})
        => /\ task'[p].pc = "loop"
           /\ task'[p].i = task[p].i + 1
           /\ task'[p].results = task[p].results
           /\ file_id_storage' = file_id_storage
           /\ file_id_storage[CurrentSong(p).slug] = None
           /\ file' = file
           /\ uploads' = uploads
           /\ run'.uploaded = run.uploaded

\* C7: when the media download of a song returns a non-success status, the
\* resolver returns no file_id without attempting the upload, file_id_storage
\* and the file stay as they are with no entry for the slug, and the song is
\* not in the result list of the inline query.
FailedDownloadDropsSong == []DroppedNotInResults /\ [][DownloadStatusStep]_vars

\* C7 witness: a handler is about to answer with the song that resolved,
\* the other song of its page having failed to download.
AnswerWithoutDroppedSong ==
    \E t \in Handlers :
        /\ task[t].pc = "answer"
        /\ ~task[t].hit
        /\ task[t].dropped # {}
        /\ task[t].results # <<>>
        /\ \A x \in task[t].dropped : file_id_storage[x] = None

\* C8 as stated: no batch (inline query or bulk run) is left while one of
\* its songs is being resolved: a failure of the download, the thumbnail
\* download or the upload only drops that song.
SongFailureNeverAbortsBatch ==
    \A p \in Procs :
        task[p].pc = "failed" => task[p].raised \notin {"media", "thumb", "upload"}

\* C9 as stated: a handler that received an inline query does not end before
\* it has called answer_inline_query with its result list.
EveryQueryAnswered ==
    \A t \in Handlers :
        task[t].pc = "failed" => task[t].raised = "answer"

\* C10 as stated: loading never fails; a missing file and a file that is not
\* JSON give the empty store, any other file gives its mapping.
LoadNeverFatal ==
    /\ main_pc # "import_failed"
    /\ main_pc = "main" =>
          file_id_storage = IF file.kind = "json" THEN Parse(file.data) ELSE Empty

\* C11: at every suspension point after the import (every state of the
\* model: the steps between two awaits are one action), loading the file
\* as a fresh process would gives exactly the in-memory file_id_storage, so
\* every entry written by a resolution is in the file.
PersistedEqualsMemory ==
    main_pc \notin {"load", "import_failed"}
    => /\ ~load_file_ids(file).raised
       /\ load_file_ids(file).value = file_id_storage

\* C11 witness: a process that started with entries in its file has
\* uploaded a further song, and the file holds the old and the new entry.
FileHoldsOldAndNewEntry ==
    \E x, y \in Slugs :
        /\ uploads[x] = 1 /\ <<x, FileId(x, 1)>> \in file.data
        /\ uploads[y] = 0 /\ <<y, y>> \in file.data
        /\ file_id_storage[x] = FileId(x, 1) /\ file_id_storage[y] = y

Keys(c) == {c[k].key : k \in 1..Len(c)}

\* The entries the cache holds at time now are those that have not expired.
Held(now) == Keys(expire(query_cache, now))

\* The least recently used of the held entries: the one whose last insertion
\* or read is the oldest.
LeastRecentlyUsed(now) ==
    CHOOSE q \in Held(now) : \A o \in Held(now) : stored[q].last <= stored[o].last

\* Storing the list of a query that is not held, while maxsize entries are
\* held, removes the least recently used entry and no other.
StoreEvictsLeastRecentlyUsed ==
    \A t \in Handlers :
        (/\ task[t].pc = "loop" /\ task'[t].pc = "answer"
         /\ task[t].query \notin Held(clock)
         /\ Cardinality(Held(clock)) = maxsize)
        => Keys(query_cache') =
              (Held(clock) \ {LeastRecentlyUsed(clock)}) \cup {task[t].query}

\* C12: the query cache never holds more than maxsize entries, and when it
\* holds maxsize entries, storing the results of a query that is not in it
\* removes exactly one prior entry, the least recently inserted or read one.
CacheBoundedEvictsLRU ==
    [](Len(query_cache) <= maxsize) /\ [][StoreEvictsLeastRecentlyUsed]_vars

\* C12 witness: an entry that has not expired was evicted from the full
\* cache while an entry inserted before it, but read after it, was kept.
EvictedBeforeOlderEntry ==
    \E q, o \in Queries :
        /\ stored[q].valid /\ q \notin Keys(query_cache)
        /\ clock < stored[q].ins + ttl
        /\ o \in Held(clock)
        /\ stored[o].ins < stored[q].ins
        /\ Len(query_cache) = maxsize

\* One result per song of songs[1..n] whose call returned a file_id, in the
\* order of songs, with that file_id and the caption of the song.
RECURSIVE Resolved(_, _, _)
Resolved(songs, returned, n) ==
    IF n = 0 THEN <<>>
    ELSE IF returned[n] # None
         THEN Append(Resolved(songs, returned, n - 1),
                     [id |-> songs[n].slug, audio_file_id |-> returned[n],
                      caption |-> <<"albums", songs[n].album, songs[n].slug>>])
         ELSE Resolved(songs, returned, n - 1)

\* C13: on a miss, the list the handler has built after k songs is one
\* (slug, file_id, caption) result for each of the first k songs of the page
\* whose call returned a file_id, in page order, with the file_id the call
\* returned; the list it answers with is that of the whole page, and it is
\* the list stored in the cache for the query.
ResultListIsResolvedSongsInOrder ==
    \A t \in Handlers :
        (task[t].pc \in {"loop", "media", "thumb", "upload", "answer"} /\ ~task[t].hit)
        => /\ Len(task[t].returned) = task[t].i - 1
           /\ task[t].results = Resolved(task[t].songs, task[t].returned, task[t].i - 1)
           /\ task[t].pc = "answer" =>
                 /\ task[t].i = Len(task[t].songs) + 1
                 /\ cache_contains(query_cache, task[t].query, clock) =>
                       cache_value(query_cache, task[t].query) = task[t].results
                 /\ stored[task[t].query].results = task[t].results

\* C13 witness: a handler answers a miss with both songs of its page, the
\* second slug first as the search returned them, one taken from the store
\* and one just uploaded.
AnswerInSearchOrder ==
    \E t \in Handlers :
        /\ task[t].pc = "answer" /\ ~task[t].hit
        /\ Len(task[t].results) = 2
        /\ task[t].songs[1].slug > task[t].songs[2].slug
        /\ task[t].results[1].id = task[t].songs[1].slug
        /\ task[t].results[2].id = task[t].songs[2].slug
        /\ \E k \in 1..2 : uploads[task[t].results[k].id] = 1
        /\ \E k \in 1..2 : uploads[task[t].results[k].id] = 0

\* C14 as stated: the entry of a slug is written, and the file rewritten
\* for it, at most once: by at most one upload, and within a bulk run by at
\* most one assignment.
EntryWrittenAtMostOnce ==
    \A x \in Slugs : uploads[x] <= 1 /\ run.written[x] <= 1

\* C15: when calls of get_telegram_file_id overlap, each upload that returns
\* writes the entry at once, so after two calls for the same slug have both
\* found it absent and both uploaded, file_id_storage and the file hold the
\* file_id of the upload that returned last.
LastWriterWins ==
    \A x \in Slugs :
        uploads[x] >= 1
        => /\ file_id_storage[x] = FileId(x, uploads[x])
           /\ <<x, FileId(x, uploads[x])>> \in file.data

\* C15 witness: two handlers were both past the absence check for the same
\* slug; both uploads have returned, one result carries the file_id of the
\* first upload, the entry holds that of the second.
RedundantUploadDone ==
    \E x \in Slugs, t, o \in Overlapping :
        /\ t # o
        /\ uploads[x] = 2
        /\ file_id_storage[x] = FileId(x, 2)
        /\ \E k \in 1..Len(task[t].results) :
              task[t].results[k].audio_file_id = FileId(x, 1)
        /\ \E k \in 1..Len(task[o].results) :
              task[o].results[k].audio_file_id = FileId(x, 2)

\* C16 as stated: a call that is downloading the thumbnail of its song always
\* goes on to send_audio, whatever the outcome of the download; when the
\* download failed the audio is sent without a thumbnail.
ThumbnailFailureNonFatal ==
    [][\A p \in Procs :
          (task[p].pc = "thumb" /\ task'[p] # task[p])
          => task'[p].pc = "upload"]_vars

\* A search that gave no songs is answered with the empty list, which is
\* also stored for the query.
EmptyPageAnswersEmpty ==
    \A t \in Handlers :
        (task[t].pc = "loop" /\ task[t].songs = <<>> /\ task'[t] # task[t])
        => /\ task'[t].pc = "answer"
           /\ task'[t].results = <<>>
           /\ cache_value(query_cache', task[t].query) = <<>>

\* A failure status of the listing is not retried: the listing stops and
\* upload_songs starts its loop over the songs of the pages fetched so far.
FailureStatusNotRetried ==
    (task[Bulk].pc = "list" /\ task'[Bulk].pc # "list" /\ run'.cut)
    => /\ task'[Bulk].pc = "loop"
       /\ task'[Bulk].songs = task[Bulk].songs
       /\ task'[Bulk].i = 1

\* A bulk run whose listing was cut short ends only after its loop has gone
\* through every song of the pages fetched.
CutRunProcessesEverySong ==
    (run.cut /\ task[Bulk].pc \notin Finished /\ task'[Bulk].pc \in Finished)
    => task[Bulk].pc = "loop" /\ task[Bulk].i > Len(task[Bulk].songs)

\* The parts of C17 about the response itself, which hold.
FailureStatusHandled == [][EmptyPageAnswersEmpty /\ FailureStatusNotRetried]_vars

\* C17 as stated: a non-success catalog response is not retried; for a
\* search it yields an empty page and the query is answered with the empty
\* list; for the bulk listing it ends the pagination and the run still
\* processes every song of the pages fetched before it.
FailureStatusKeepsPartialListing ==
    [][EmptyPageAnswersEmpty /\ FailureStatusNotRetried /\ CutRunProcessesEverySong]_vars

\* C18: in every state of the program as main() runs it (one handler call
\* at a time), every result of every unexpired entry of the query cache
\* carries the file_id that file_id_storage holds for its slug.
CachedTokensMatchStore ==
    \A k \in 1..Len(query_cache) :
        clock < query_cache[k].expires
        => \A n \in 1..Len(query_cache[k].value) :
              LET result == query_cache[k].value[n]
              IN  /\ file_id_storage[result.id] # None
                  /\ file_id_storage[result.id] = result.audio_file_id

\* C18 witness: two unexpired entries hold results for the same slug, which
\* was uploaded while the first of them was built, and for a slug whose
\* file_id was loaded from the file.
TwoEntriesSameToken ==
    \E x, y \in Slugs :
        /\ uploads[x] = 1 /\ uploads[y] = 0
        /\ Len(query_cache) = 2
        /\ \A k \in 1..2 :
              /\ clock < query_cache[k].expires
              /\ {x, y} \subseteq Ids(query_cache[k].value)

\* A handler in which the download of a song failed with a status ends only
\* after it has stored its shortened list and called answer_inline_query.
ShortenedListStored ==
    \A t \in Handlers :
        (task[t].dropped # {} /\ task[t].pc \notin Finished /\ task'[t].pc \in Finished)
        => /\ task[t].pc = "answer"
           /\ stored[task[t].query].valid
           /\ stored[task[t].query].results = task[t].results
           /\ stored[task[t].query].dropped = task[t].dropped

\* A call for a query whose stored list lacks a song whose download failed,
\* received less than ttl after the list was stored, is answered with that
\* list: the song is not retried, whether or not it has an entry by now.
ShortenedListReturned ==
    \A t \in Handlers :
        (/\ Repeats(t)
         /\ task[t].prior.dropped # {}
         /\ task[t].recv < task[t].prior.ins + ttl)
        => /\ task[t].hit
           /\ task[t].pc = "answer"
           /\ task[t].results = task[t].prior.results
           /\ task[t].prior.dropped \cap Ids(task[t].results) = {}

\* C19 as stated: the shortened list of a query in which a download failed
\* with a status is stored in the cache, and every later call for the query
\* within the TTL returns that list without retrying the song.
ShortenedListCachedAndReturned ==
    [][ShortenedListStored /\ ShortenedListReturned]_vars

\* A hit is answered with the stored list, without the dropped song, even
\* when the song has an entry by then.
HitReturnsShortenedList ==
    \A t \in Handlers :
        (task[t].pc = "answer" /\ task[t].hit)
        => /\ task[t].results = task[t].prior.results
           /\ task[t].prior.dropped \cap Ids(task[t].results) = {}

\* Such a hit happens: the dropped song has obtained an entry through
\* another query, and the hit still answers without it.
HitWithoutSongResolvedSince ==
    \E t \in Handlers :
        /\ task[t].pc = "answer" /\ task[t].hit
        /\ \E x \in task[t].prior.dropped : file_id_storage[x] # None

\* C20: while upload_songs runs no inline query has been received (no cache
\* lookup, no resolution, no write by a handler), and once a handler has
\* been called the bulk job is over or was never started: polling begins
\* only after upload_songs has returned.
BulkBeforePolling ==
    /\ task[Bulk].pc \notin {"idle", "done"}
       => /\ main_pc \in {"upload_songs", "crashed"}
          /\ nreq = 0
          /\ query_cache = <<>>
          /\ \A t \in Overlapping : task[t].pc = "idle"
    /\ (\E t \in Overlapping : task[t].pc # "idle")
       => main_pc = "polling" /\ task[Bulk].pc \in {"idle", "done"}

\* C20 witness: a handler resolves a song by the fast path from the entry
\* that the bulk job, now over, wrote for it.
HandlerAfterBulkUpload ==
    \E t \in Handlers, x \in Slugs :
        /\ task[Bulk].pc = "done"
        /\ task[t].pc = "loop"
        /\ uploads[x] = 1
        /\ \E k \in 1..Len(task[t].results) :
              task[t].results[k].audio_file_id = FileId(x, 1)
        /\ nreq = 1

====
